---- MODULE Spec2Model ----
(***************************************************************************)
(* Model of scripts/tools/enhance_npc_data.py: the NPC team enhancer.      *)
(*                                                                         *)
(* Numbers.  avg_ca ratings are floats that the code only compares with    *)
(* the integer thresholds 80/100/120/140, so ratings are integers here.    *)
(* Tactics parameters are floats with two decimals; they are integers in   *)
(* hundredths (0.35 is 35).  The style sampler's fraction and cumulative   *)
(* weights are integers in ten-thousandths (0.7919 is 7919).               *)
(*                                                                         *)
(* Dicts are functions with a string domain; "key in d" is                 *)
(* key \in DOMAIN d.  Lists are sequences; Python position p is p + 1.     *)
(***************************************************************************)
EXTENDS Integers, Sequences, FiniteSets, TLC

\* ------------------------------------------------------------------ bounds
MaxIndex == 20
MaxPoolLen == 11
MaxTeams == 3

VARIABLES
    TACTICAL_PRESETS,   \* module-level dict: style -> base tactics vector
    STYLE_FORMATIONS,   \* module-level dict: style -> list of formation codes
    managers,           \* the manager pool, a list of manager dicts
    team,               \* argument of a direct enhance_team call
    index,              \* argument of a direct call
    ret,                \* outcome of the last direct call
    teams,              \* main: the loaded team list
    pc,                 \* main: position in main()
    i,                  \* main: loop counter of enumerate(teams)
    enhanced,           \* main: the list being built
    style_counts,       \* main: style statistics
    output,             \* main: what save_json wrote to OUTPUT_PATH
    run,                \* number of the current run of main's loop
    prev,               \* outcome of the previous run or call
    rating_in,          \* avg_ca argument of a direct call of a selector
    base,               \* base_tactics argument of a direct add_variation call
    tally,              \* styles or fractions counted over a range of indices
    collected           \* results of concurrent workers, by position

vars == <<TACTICAL_PRESETS, STYLE_FORMATIONS, managers, team, index, ret,
          teams, pc, i, enhanced, style_counts, output, run, prev,
          rating_in, base, tally, collected>>

\* --------------------------------------------------------- module tables
Params == {"attacking_intensity", "defensive_line_height", "width",
           "pressing_trigger", "tempo", "directness"}

Vec(a, d, w, p, t, r) ==
    [attacking_intensity |-> a, defensive_line_height |-> d, width |-> w,
     pressing_trigger |-> p, tempo |-> t, directness |-> r]

\* Presets reaching closer to the ends of [0, 1]: 0.05 and 0.95.
TacticalPresets_wide ==
    [Attacking  |-> Vec(80, 70, 75, 70, 80, 60),
     Defensive  |-> Vec(5, 30, 50, 30, 40, 40),
     Balanced   |-> Vec(50, 50, 60, 50, 50, 50),
     Possession |-> Vec(50, 60, 70, 60, 30, 30),
     Counter    |-> Vec(70, 35, 50, 40, 90, 85),
     Pressing   |-> Vec(70, 75, 65, 95, 70, 60)]

\* TACTICAL_PRESETS as the module defines it, in hundredths.
TacticalPresets ==
    [Attacking  |-> Vec(80, 70, 75, 70, 80, 60),
     Defensive  |-> Vec(30, 30, 50, 30, 40, 40),
     Balanced   |-> Vec(50, 50, 60, 50, 50, 50),
     Possession |-> Vec(50, 60, 70, 60, 30, 30),
     Counter    |-> Vec(70, 35, 50, 40, 90, 85),
     Pressing   |-> Vec(70, 75, 65, 90, 70, 60)]

\* STYLE_FORMATIONS as the module defines it.
StyleFormations ==
    [Attacking  |-> <<"T433", "T4231", "T352">>,
     Defensive  |-> <<"T541", "T532", "T4141">>,
     Balanced   |-> <<"T442", "T4231", "T433">>,
     Possession |-> <<"T433", "T4231", "T4312">>,
     Counter    |-> <<"T442", "T4141", "T352">>,
     Pressing   |-> <<"T4231", "T433", "T442">>]

\* list(TACTICAL_PRESETS.keys()): the keys in insertion order.
styles == <<"Attacking", "Defensive", "Balanced", "Possession", "Counter", "Pressing">>

\* ------------------------------------------------------- Python helpers
\* a % b with Python's sign rule (the result has the sign of the divisor);
\* b = 0 is the caller's ZeroDivisionError.
PyMod(a, b) == IF b > 0 THEN a % b ELSE 0 - ((0 - a) % (0 - b))

Min(a, b) == IF a <= b THEN a ELSE b
Max(a, b) == IF a >= b THEN a ELSE b

\* d.get(key, default)
Get(d, key, default) == IF key \in DOMAIN d THEN d[key] ELSE default

\* d[key] = value on a dict
Put(d, key, value) == (key :> value) @@ d

\* {}
EmptyDict == [key \in {} |-> 0]

\* A JSON value of the avg_ca field: a number, a string holding a number's
\* text ("120"), or any other string ("abc").
Num(n)    == <<"number", n>>
NumStr(n) == <<"numeric string", n>>
BadStr    == <<"other string", 0>>

\* Outcome of a call: a returned value or a raised exception.
Return(v) == [status |-> "ok", value |-> v]
Raise(e)  == [status |-> e, value |-> 0]

\* float(x): numbers and numeric strings convert, other strings raise.
float(x) ==
    IF x[1] \in {"number", "numeric string"} THEN Return(x[2])
    ELSE Raise("ValueError")

\* ------------------------------------------------ select_manager_for_ca
\* tier with the comparisons written the wrong way round.
tier_reversed(avg_ca) ==
    IF avg_ca <= 140 THEN 4
    ELSE IF avg_ca <= 120 THEN 3
    ELSE IF avg_ca <= 100 THEN 2
    ELSE IF avg_ca <= 80 THEN 1
    ELSE 0

\* The strength tier of a rating (the if/elif chain of select_manager_for_ca).
tier(avg_ca) ==
    IF avg_ca >= 140 THEN 4
    ELSE IF avg_ca >= 120 THEN 3
    ELSE IF avg_ca >= 100 THEN 2
    ELSE IF avg_ca >= 80 THEN 1
    ELSE 0

\* manager_at returning the list position in place of the manager's id.
manager_at_position(mgrs, manager_index) ==
    IF manager_index >= 0 /\ manager_index < Len(mgrs)
    THEN Return(manager_index)
    ELSE Raise("IndexError")

\* managers[manager_index].get("id", 1): a position outside the list raises,
\* a negative position counts from the end of the list.
manager_at(mgrs, manager_index) ==
    IF manager_index >= 0 /\ manager_index < Len(mgrs)
    THEN Return(Get(mgrs[manager_index + 1], "id", 1))
    ELSE IF manager_index < 0 /\ 0 - manager_index <= Len(mgrs)
    THEN Return(Get(mgrs[Len(mgrs) + manager_index + 1], "id", 1))
    ELSE Raise("IndexError")

\* The last tier's slice running to the end of the pool.
tier_end_to_the_end(tier_start, tier_size, manager_count) ==
    IF tier_start = 4 * tier_size THEN manager_count
    ELSE Min(tier_start + tier_size, manager_count)

\* tier_end = min(tier_start + tier_size, manager_count)
tier_end_of(tier_start, tier_size, manager_count) ==
    Min(tier_start + tier_size, manager_count)

\* select_manager_for_ca taking the first manager of the slice, whatever
\* the index.
select_manager_for_ca_first(avg_ca, mgrs, idx) ==
    IF Len(mgrs) = 0 THEN Return(1)
    ELSE manager_at(mgrs, tier(avg_ca) * Max(1, Len(mgrs) \div 5))

\* select_manager_for_ca moving on within the slice at every second index
\* only.
select_manager_for_ca_halved(avg_ca, mgrs, idx) ==
    IF Len(mgrs) = 0 THEN Return(1)
    ELSE LET tier_size  == Max(1, Len(mgrs) \div 5)
             tier_start == tier(avg_ca) * tier_size
             tier_end   == tier_end_of(tier_start, tier_size, Len(mgrs))
         IN  IF tier_end - tier_start = 0 THEN Raise("ZeroDivisionError")
             ELSE manager_at(mgrs, tier_start + PyMod(idx \div 2, tier_end - tier_start))

select_manager_for_ca(avg_ca, mgrs, idx) ==
    IF Len(mgrs) = 0 THEN Return(1)
    ELSE
        LET manager_count == Len(mgrs)
            tier_size     == Max(1, manager_count \div 5)
            tier_start    == tier(avg_ca) * tier_size
            tier_end      == tier_end_of(tier_start, tier_size, manager_count)
        IN  IF tier_end - tier_start = 0 THEN Raise("ZeroDivisionError")
            ELSE manager_at(mgrs, tier_start + PyMod(idx, tier_end - tier_start))

\* --------------------------------------------- determine_tactical_style
\* The weight table of a rating's band, in ten-thousandths.
\* Weight tables whose last entry is halved, summing to 0.95 or 0.975.
weights_short(avg_ca) ==
    IF avg_ca >= 140 THEN <<3000, 500, 2000, 2500, 1000, 500>>
    ELSE IF avg_ca >= 120 THEN <<2500, 1000, 2500, 2000, 1000, 500>>
    ELSE IF avg_ca >= 100 THEN <<1500, 1500, 3500, 1500, 1000, 500>>
    ELSE IF avg_ca >= 80 THEN <<1000, 2000, 3500, 1000, 1500, 500>>
    ELSE <<500, 3500, 3500, 500, 1500, 250>>

weights(avg_ca) ==
    IF avg_ca >= 140 THEN <<3000, 500, 2000, 2500, 1000, 1000>>
    ELSE IF avg_ca >= 120 THEN <<2500, 1000, 2500, 2000, 1000, 1000>>
    ELSE IF avg_ca >= 100 THEN <<1500, 1500, 3500, 1500, 1000, 1000>>
    ELSE IF avg_ca >= 80 THEN <<1000, 2000, 3500, 1000, 1500, 1000>>
    ELSE <<500, 3500, 3500, 500, 1500, 500>>

RECURSIVE SumTo(_, _)
\* The decimal value of w[1] + ... + w[n].
SumTo(w, n) == IF n = 0 THEN 0 ELSE SumTo(w, n - 1) + w[n]

\* cumulative += w is a sum of IEEE-754 doubles.  For these partial sums the
\* double lies one ulp below the decimal value (0.15+0.15+0.35 is
\* 0.6499999999999999, 0.05+0.35 is 0.39999999999999997); every other
\* partial sum of the five tables is the decimal's double or above it.
SumIsBelowDecimal(w, n) ==
    \/ w = <<1500, 1500, 3500, 1500, 1000, 1000>> /\ n >= 3
    \/ w = <<500, 3500, 3500, 500, 1500, 500>> /\ n = 2

\* rand_value <= cumulative after n additions: rand_value is k/10000.0, the
\* double of a multiple of 0.0001, so a sum one ulp below its decimal admits
\* every multiple strictly below that decimal.
within_cumulative(rand_value, w, n) ==
    IF SumIsBelowDecimal(w, n) THEN rand_value < SumTo(w, n)
    ELSE rand_value <= SumTo(w, n)

RECURSIVE loop_exit(_, _, _)
\* The for loop over enumerate(weights) from position n on: the position at
\* which it returns, or 0 when it runs to its end.
loop_exit(rand_value, w, n) ==
    IF n > Len(w) THEN 0
    ELSE IF within_cumulative(rand_value, w, n) THEN n
    ELSE loop_exit(rand_value, w, n + 1)

\* The for loop from position n on, and the "Balanced" that follows it.
walk(rand_value, w, n) ==
    LET k == loop_exit(rand_value, w, n)
    IN  IF k = 0 THEN "Balanced" ELSE styles[k]

\* rand_value with the even multiplier 7918.
rand_of_even(idx) == (idx * 7918) % 10000

\* rand_value with the multiplier 7915, a multiple of 5.
rand_of_by_7915(idx) == (idx * 7915) % 10000

\* rand_value, in ten-thousandths.
rand_of(idx) == (idx * 7919) % 10000

determine_tactical_style(avg_ca, idx) == walk(rand_of(idx), weights(avg_ca), 1)

\* -------------------------------------------------------- add_variation
\* variation, in hundredths.
\* variation taken modulo 21, reaching +0.10.
variation_to_ten(idx) == PyMod(idx * 31, 21) - 10

variation(idx) == PyMod(idx * 31, 20) - 10

\* add_variation adding the perturbation as whole units, without the clamp.
add_variation_unclamped(base_tactics, idx) ==
    [varied |-> [key \in DOMAIN base_tactics |->
                    base_tactics[key] + 100 * variation(idx)],
     base_tactics |-> base_tactics]

\* add_variation writing into the dict it was handed (varied = base_tactics).
add_variation_in_place(base_tactics, idx) ==
    LET written == [key \in DOMAIN base_tactics |->
                       Max(0, Min(100, base_tactics[key] + variation(idx)))]
    IN  [varied |-> written, base_tactics |-> written]

\* Returns the new dict as varied; base_tactics is the argument dict as the
\* call leaves it (the caller passes an entry of TACTICAL_PRESETS by
\* reference).
add_variation(base_tactics, idx) ==
    [varied |-> [key \in DOMAIN base_tactics |->
                    Max(0, Min(100, base_tactics[key] + variation(idx)))],
     base_tactics |-> base_tactics]

\* --------------------------------------------------------- enhance_team
\* The outcome of enhance_team: status and value as for Return/Raise, and
\* presets, the TACTICAL_PRESETS table as the call leaves it.
Outcome(status, value, presets) ==
    [status |-> status, value |-> value, presets |-> presets]

\* The test left out: no record counts as enhanced.
already_enhanced_never(t) == FALSE

\* The "already has enhancement data" test.
already_enhanced(t) ==
    \A key \in {"manager_id", "tactics", "formation"} : key \in DOMAIN t

\* A dict object handed around by reference: its fields, and whether it is an
\* object of its own (fresh) or the argument object under another name.
\* copy starting from an empty dict.
copy_empty(t) == [fresh |-> TRUE, fields |-> EmptyDict]

\* enhanced = team: no copy, the argument under another name.
copy_alias(t) == [fresh |-> FALSE, fields |-> t]

\* A copy in which a missing avg_ca is filled in with the default.
copy_with_rating(t) ==
    [fresh |-> TRUE, fields |-> Put(t, "avg_ca", Get(t, "avg_ca", Num(50)))]

\* team.copy(): a new dict with the keys and values of the argument.
copy(t) == [fresh |-> TRUE, fields |-> t]

\* What a call leaves behind besides its outcome o: the argument record t as
\* the call leaves it (every write to `enhanced` is a write to the argument
\* when the two are one object), and whether the returned dict is an object
\* of its own.
Effects(o, c, t, written) ==
    o @@ [team |-> IF c.fresh THEN t ELSE written, fresh |-> c.fresh]

\* "Assign manager based on team strength tier": the copy with the manager
\* set when the record has none, or the exception of the selection.
assign_manager(t, e, avg_ca, mgrs, idx) ==
    IF "manager_id" \notin DOMAIN t
    THEN LET m == select_manager_for_ca(avg_ca, mgrs, idx)
         IN  IF m.status = "ok" THEN Return(Put(e, "manager_id", m.value)) ELSE m
    ELSE Return(e)

\* select_formation looking up the literal "style": always the default list.
select_formation_default(style, idx) ==
    LET formations == Get(STYLE_FORMATIONS, "style", <<"T442">>)
    IN  formations[(idx % Len(formations)) + 1]

\* select_formation stepping through the style's list from its end.
select_formation_backwards(style, idx) ==
    LET formations == Get(STYLE_FORMATIONS, style, <<"T442">>)
    IN  formations[Len(formations) - (idx % Len(formations))]

\* formations[index % len(formations)] of the style's list.
select_formation(style, idx) ==
    LET formations == Get(STYLE_FORMATIONS, style, <<"T442">>)
    IN  formations[(idx % Len(formations)) + 1]

\* assign_formation without the "not in team" test.
assign_formation_always(t, e, style, idx) ==
    Put(e, "formation", select_formation(style, idx))

\* "Assign formation"
assign_formation(t, e, style, idx) ==
    IF "formation" \notin DOMAIN t
    THEN Put(e, "formation", select_formation(style, idx))
    ELSE e

\* "Assign tactics": the copy with the tactics set when the record has none,
\* and TACTICAL_PRESETS as the call of add_variation leaves it.
assign_tactics(t, e, style, idx) ==
    IF "tactics" \notin DOMAIN t
    THEN LET base_key == IF style \in DOMAIN TACTICAL_PRESETS THEN style ELSE "Balanced"
             av == add_variation(TACTICAL_PRESETS[base_key], idx)
         IN  [enhanced |-> Put(e, "tactics", av.varied),
              presets |-> [TACTICAL_PRESETS EXCEPT ![base_key] = av.base_tactics]]
    ELSE [enhanced |-> e, presets |-> TACTICAL_PRESETS]

\* tag_style left out.
tag_style_skipped(e, style) == e

\* "Add tactical style tag"
tag_style(e, style) == Put(e, "tactical_style", style)

enhance_team(t, mgrs, idx) ==
    LET c == copy(t)
        enhanced0 == c.fields
        f == float(Get(t, "avg_ca", Num(50)))
    IN  IF f.status # "ok"
        THEN Effects(Outcome(f.status, 0, TACTICAL_PRESETS), c, t, enhanced0)
        ELSE IF already_enhanced(t)
        THEN Effects(Outcome("ok", enhanced0, TACTICAL_PRESETS), c, t, enhanced0)
        ELSE LET m == assign_manager(t, enhanced0, f.value, mgrs, idx)
             IN  IF m.status # "ok"
                 THEN Effects(Outcome(m.status, 0, TACTICAL_PRESETS), c, t, enhanced0)
                 ELSE LET style == determine_tactical_style(f.value, idx)
                          e2 == assign_formation(t, m.value, style, idx)
                          a == assign_tactics(t, e2, style, idx)
                          e3 == tag_style(a.enhanced, style)
                      IN  Effects(Outcome("ok", e3, a.presets), c, t, e3)

\* ---------------------------------------------------------------- inputs
\* A manager pool of length n, as dummy_managers.json lists it: ids 1..n.
Pool(n) == [k \in 1..n |-> [id |-> k]]
Pools == {Pool(n) : n \in 0..MaxPoolLen}

\* The identifying data of a team record.
Base == [id |-> 7]

\* A field that may be absent, or present with one of vals.
Opt(key, vals) == {Base} \cup {Put(Base, key, v) : v \in vals}

\* Ratings on both sides of every threshold.
CAValues == {79, 80, 99, 100, 119, 120, 139, 140}

\* Tactics a record may arrive with: a vector inside [0, 1] and one outside.
InputTacticsInRange == Vec(10, 20, 30, 40, 50, 100)
InputTacticsOutside == Vec(150, 20, 30, 40, 50, 0 - 5)

\* Team records as stage_teams_safe.json may hold them.
TeamRecords ==
    { a @@ m @@ f @@ t @@ s :
        a \in Opt("avg_ca", {Num(n) : n \in CAValues} \cup {NumStr(120), BadStr}),
        m \in Opt("manager_id", {999}),
        f \in Opt("formation", {"T541"}),
        t \in Opt("tactics", {InputTacticsInRange, InputTacticsOutside}),
        s \in Opt("tactical_style", {"Counter"}) }

\* The records and pools of a whole run of main.
MainTeamRecords ==
    { a @@ m @@ ft :
        a \in {Put(Base, "avg_ca", Num(n)) : n \in {60, 150}},
        m \in Opt("manager_id", {999}),
        ft \in {Base, [formation |-> "T541", tactics |-> InputTacticsInRange]} }
MainPools == {Pool(0), Pool(3), Pool(6), Pool(10)}

RECURSIVE ListsUpTo(_, _)
\* The lists of at most n elements of S.
ListsUpTo(S, n) ==
    IF n = 0 THEN {<<>>}
    ELSE LET shorter == ListsUpTo(S, n - 1)
         IN  shorter \cup {Append(l, x) : l \in shorter, x \in S}

NotCalled == Outcome("not called", 0, TacticalPresets)
NoFile    == [written |-> FALSE, data |-> <<>>]
NoRun     == [pc |-> "none", output |-> NoFile]

\* ------------------------------------------------- a call of enhance_team
Init ==
    /\ TACTICAL_PRESETS = TacticalPresets
    /\ STYLE_FORMATIONS = StyleFormations
    /\ managers \in Pools
    /\ team \in TeamRecords
    /\ index \in 0..MaxIndex
    /\ ret = NotCalled
    /\ teams = <<>>
    /\ pc = "idle"
    /\ i = 0
    /\ enhanced = <<>>
    /\ style_counts = EmptyDict
    /\ output = NoFile
    /\ run = 0
    /\ prev = NoRun
    /\ rating_in = 0
    /\ base = EmptyDict
    /\ tally = EmptyDict
    /\ collected = <<>>

\* enhance_team(team, managers, index)
CallEnhanceTeam ==
    /\ pc = "idle"
    /\ ret.status = "not called"
    /\ ret' = enhance_team(team, managers, index)
    /\ TACTICAL_PRESETS' = ret'.presets
    /\ team' = ret'.team
    /\ UNCHANGED <<STYLE_FORMATIONS, managers, index, teams, pc, i,
                   enhanced, style_counts, output, run, prev>>
    /\ UNCHANGED <<rating_in, base, tally, collected>>

Next == CallEnhanceTeam

Spec == Init /\ [][Next]_vars

\* ------------------------------------------------------------------ main
InitMain ==
    /\ TACTICAL_PRESETS = TacticalPresets
    /\ STYLE_FORMATIONS = StyleFormations
    /\ managers \in MainPools
    /\ teams \in ListsUpTo(MainTeamRecords, MaxTeams)
    /\ team = Base
    /\ index = 0
    /\ ret = NotCalled
    /\ pc = "start"
    /\ i = 0
    /\ enhanced = <<>>
    /\ style_counts = EmptyDict
    /\ output = NoFile
    /\ run = 1
    /\ prev = NoRun
    /\ rating_in = 0
    /\ base = EmptyDict
    /\ tally = EmptyDict
    /\ collected = <<>>

\* enhanced = [] ; style_counts = {} and the start of the for loop.
MainBegin ==
    /\ pc = "start"
    /\ enhanced' = <<>>
    /\ style_counts' = EmptyDict
    /\ i' = 0
    /\ pc' = "loop"
    /\ UNCHANGED <<TACTICAL_PRESETS, STYLE_FORMATIONS, managers, team, index,
                   ret, teams, output, run, prev>>
    /\ UNCHANGED <<rating_in, base, tally, collected>>

\* One pass of the loop body with k as the index handed to enhance_team; an
\* exception of enhance_team leaves main without saving.
EnhanceStep(k) ==
    /\ pc = "loop"
    /\ i < Len(teams)
    /\ LET r == enhance_team(teams[i + 1], managers, k)
       IN  /\ TACTICAL_PRESETS' = r.presets
           /\ teams' = [teams EXCEPT ![i + 1] = r.team]
           /\ ret' = r
           /\ IF r.status = "ok"
              THEN LET style == Get(r.value, "tactical_style", "Unknown")
                   IN  /\ enhanced' = Append(enhanced, r.value)
                       /\ style_counts' =
                             Put(style_counts, style, Get(style_counts, style, 0) + 1)
                       /\ i' = i + 1
                       /\ pc' = "loop"
              ELSE /\ pc' = "raised"
                   /\ UNCHANGED <<enhanced, style_counts, i>>
    /\ UNCHANGED <<STYLE_FORMATIONS, managers, team, index, output, run, prev>>
    /\ UNCHANGED <<rating_in, base, tally, collected>>

\* enumerate(teams, 1): the index counted from one.
MainEnhance_from_one == EnhanceStep(i + 1)

\* for i, team in enumerate(teams): enhance_team(team, managers, i)
MainEnhance == EnhanceStep(i)

\* save_json(OUTPUT_PATH, enhanced) after the loop.
MainSave ==
    /\ pc = "loop"
    /\ i = Len(teams)
    /\ output' = [written |-> TRUE, data |-> enhanced]
    /\ pc' = "done"
    /\ UNCHANGED <<TACTICAL_PRESETS, STYLE_FORMATIONS, managers, team, index,
                   ret, teams, i, enhanced, style_counts, run, prev>>
    /\ UNCHANGED <<rating_in, base, tally, collected>>

\* The enhancement is run again on the same team list and manager pool,
\* with the module's tables as the earlier run left them.
MaxRuns == 2
MainAgain ==
    /\ pc \in {"done", "raised"}
    /\ run < MaxRuns
    /\ prev' = [pc |-> pc, output |-> output]
    /\ run' = run + 1
    /\ pc' = "start"
    /\ UNCHANGED <<TACTICAL_PRESETS, STYLE_FORMATIONS, managers, team, index,
                   ret, teams, i, enhanced, style_counts, output>>
    /\ UNCHANGED <<rating_in, base, tally, collected>>

NextMain == MainBegin \/ MainEnhance \/ MainSave \/ MainAgain

SpecMain == InitMain /\ [][NextMain]_vars

\* ================================================================ claims
\* The vocabulary of the statements about a call enhance_team(team,
\* managers, index) under Spec.
Called   == ret.status # "not called"
Returned == ret.status = "ok"

\* The rating the call works with, and whether the record's avg_ca is a
\* number (or absent) rather than a string.
rating(t)    == Get(t, "avg_ca", Num(50))[2]
WellTyped(t) == Get(t, "avg_ca", Num(50))[1] = "number"

Enhancement == {"manager_id", "formation", "tactics"}
Present(t)  == Enhancement \cap DOMAIN t
PoolIds     == {managers[k].id : k \in 1..Len(managers)}
InUnit(v)   == \A key \in DOMAIN v : v[key] >= 0 /\ v[key] <= 100
Codes(l)    == {l[k] : k \in 1..Len(l)}

\* The style the call selects for the record.
StyleOfCall == determine_tactical_style(rating(team), index)

\* ---- C1
\* C1 as claimed: for every well-typed input (numeric or absent avg_ca, any
\* subset of manager_id/formation/tactics, a pool of any length 0..MaxPoolLen
\* with integer ids, any index >= 0) enhance_team returns a record and
\* raises nothing.
C1_NeverRaises == (Called /\ WellTyped(team)) => Returned

\* ---- C2
\* C2 as claimed: every returned record carries the tactical_style computed
\* from its avg_ca and index, also when the record arrived with manager_id,
\* formation and tactics.
C2_AlwaysTagged ==
    Returned =>
        /\ "tactical_style" \in DOMAIN ret.value
        /\ ret.value.tactical_style = StyleOfCall

\* C2 amended: a returned record carries the tactical_style computed from
\* its avg_ca and index unless it arrived with all of manager_id, formation
\* and tactics; such a record comes back with the tag it arrived with, or
\* with none.
C2_TaggedUnlessEnhanced ==
    Returned =>
        IF already_enhanced(team)
        THEN /\ ("tactical_style" \in DOMAIN ret.value) = ("tactical_style" \in DOMAIN team)
             /\ "tactical_style" \in DOMAIN team =>
                    ret.value.tactical_style = team.tactical_style
        ELSE /\ "tactical_style" \in DOMAIN ret.value
             /\ ret.value.tactical_style = StyleOfCall

\* A record lacking tactics that arrived with another tag is returned with
\* the computed tag.
C2_Witness ==
    /\ Returned
    /\ ~already_enhanced(team)
    /\ "tactical_style" \in DOMAIN team
    /\ ret.value.tactical_style # team.tactical_style

\* ---- C3
\* C3 as claimed: the formation of every returned record, whatever the input
\* carried, is one of the candidates of STYLE_FORMATIONS for the record's
\* tactical_style.
C3_FormationOfStyle ==
    Returned =>
        /\ "formation" \in DOMAIN ret.value
        /\ "tactical_style" \in DOMAIN ret.value
        /\ ret.value.tactical_style \in DOMAIN StyleFormations
        /\ ret.value.formation \in Codes(StyleFormations[ret.value.tactical_style])

\* C3 amended: the formation of every returned record whose input carried no
\* formation is one of the three candidates of STYLE_FORMATIONS for the
\* record's tactical_style.
C3_ComputedFormationOfStyle ==
    (Returned /\ "formation" \notin DOMAIN team) =>
        /\ "formation" \in DOMAIN ret.value
        /\ "tactical_style" \in DOMAIN ret.value
        /\ ret.value.tactical_style \in DOMAIN StyleFormations
        /\ Cardinality(Codes(StyleFormations[ret.value.tactical_style])) = 3
        /\ ret.value.formation \in Codes(StyleFormations[ret.value.tactical_style])

\* A record without formation gets the third candidate of a style other
\* than the first.
C3_Witness ==
    /\ Returned
    /\ "formation" \notin DOMAIN team
    /\ ret.value.tactical_style = "Counter"
    /\ ret.value.formation = "T352"

\* ---- C4
\* C4 as claimed: each of the six tactics parameters of every returned
\* record, whatever the input carried, lies in [0.0, 1.0].
C4_TacticsInUnit ==
    Returned =>
        /\ "tactics" \in DOMAIN ret.value
        /\ DOMAIN ret.value.tactics = Params
        /\ InUnit(ret.value.tactics)

\* C4 amended: each of the six tactics parameters of a returned record whose
\* input carried no tactics lies in [0.0, 1.0]; tactics the input carried are
\* returned as they arrived, inside [0.0, 1.0] or not.
C4_ComputedTacticsInUnit ==
    Returned =>
        IF "tactics" \in DOMAIN team
        THEN /\ "tactics" \in DOMAIN ret.value
             /\ ret.value.tactics = team.tactics
        ELSE /\ "tactics" \in DOMAIN ret.value
             /\ DOMAIN ret.value.tactics = Params
             /\ InUnit(ret.value.tactics)

\* Tactics are computed for a record without them: the Pressing base vector
\* raised by 0.05, its largest parameter at 0.95.
C4_Witness ==
    /\ Returned
    /\ "tactics" \notin DOMAIN team
    /\ ret.value.tactical_style = "Pressing"
    /\ ret.value.tactics.pressing_trigger = 95
    /\ ret.value.tactics.tempo = 75

\* ---- C5
\* C5 as claimed: with a non-empty pool the manager_id of every returned
\* record is the id of a manager of the pool.
C5_ManagerFromPool ==
    (Returned /\ Len(managers) >= 1) =>
        /\ "manager_id" \in DOMAIN ret.value
        /\ ret.value.manager_id \in PoolIds

\* C5 amended: with a non-empty pool the manager_id of every returned record
\* whose input carried no manager_id is the id of a manager of the pool, for
\* every pool length >= 1, avg_ca and index >= 0; a manager_id the input
\* carried is kept, in the pool or not.
C5_AssignedManagerFromPool ==
    (Returned /\ Len(managers) >= 1 /\ "manager_id" \notin DOMAIN team) =>
        /\ "manager_id" \in DOMAIN ret.value
        /\ ret.value.manager_id \in PoolIds

\* A manager is assigned from a pool shorter than five, and not its first.
C5_Witness ==
    /\ Returned
    /\ Len(managers) \in 2..4
    /\ "manager_id" \notin DOMAIN team
    /\ ret.value.manager_id = managers[Len(managers)].id

\* ---- C6
\* C6: for a record that arrives with manager_id, formation and tactics, the
\* returned record has every field other than tactical_style at the input's
\* value, and no field other than tactical_style is added or removed.
C6_PassThrough ==
    (Returned /\ already_enhanced(team)) =>
        \A key \in (DOMAIN team \cup DOMAIN ret.value) \ {"tactical_style"} :
            /\ key \in DOMAIN team
            /\ key \in DOMAIN ret.value
            /\ ret.value[key] = team[key]

\* An already enhanced record with a rating, a foreign manager and
\* out-of-range tactics went through a call with a non-empty pool.
C6_Witness ==
    /\ Returned
    /\ already_enhanced(team)
    /\ "avg_ca" \in DOMAIN team
    /\ team.tactics = InputTacticsOutside
    /\ Len(managers) >= 5
    /\ index > 0

\* ---- C7
\* C7: for a record that arrives with one or two of manager_id, formation and
\* tactics, the returned record has all three; each present one has the
\* input's value, an absent manager_id is the manager selected for avg_ca,
\* pool and index, an absent formation is candidate index mod 3 of the style
\* selected for avg_ca and index, and absent tactics are that style's base
\* vector with the index's perturbation, clamped to [0, 1].
C7_FillsOnlyAbsent ==
    (Returned /\ Cardinality(Present(team)) \in {1, 2}) =>
        /\ \A key \in Enhancement : key \in DOMAIN ret.value
        /\ \A key \in Present(team) : ret.value[key] = team[key]
        /\ "manager_id" \notin DOMAIN team =>
              ret.value.manager_id =
                  select_manager_for_ca(rating(team), managers, index).value
        /\ "formation" \notin DOMAIN team =>
              ret.value.formation = StyleFormations[StyleOfCall][(index % 3) + 1]
        /\ "tactics" \notin DOMAIN team =>
              ret.value.tactics =
                  [key \in Params |->
                      Max(0, Min(100, TacticalPresets[StyleOfCall][key]
                                        + ((index * 31) % 20) - 10))]

\* A record that arrived with a formation only got a manager from a pool of
\* at least five and tactics, and kept its formation, which is none of the
\* selected style's candidates.
C7_Witness ==
    /\ Returned
    /\ Present(team) = {"formation"}
    /\ Len(managers) >= 5
    /\ ret.value.formation = team.formation
    /\ ret.value.formation \notin Codes(StyleFormations[StyleOfCall])
    /\ ret.value.manager_id \in PoolIds

\* ---- C9
\* C9: with a pool of at least five managers with distinct ids and a record
\* without manager_id, the assigned manager lies in the slice of the
\* record's tier, the tier being 4 from 140, 3 from 120, 2 from 100, 1 from
\* 80 and 0 below; so a rating >= 140 never gets a manager of the tier-0
\* slice [0, tierSize) and a rating < 80 never one of the tier-4 slice
\* [4*tierSize, 5*tierSize).
C9_TierMonotonic ==
    (Returned /\ Len(managers) >= 5 /\ "manager_id" \notin DOMAIN team) =>
        LET tierSize == Len(managers) \div 5
            slice(t) == {managers[k + 1].id : k \in (t * tierSize)..((t + 1) * tierSize - 1)}
            ca == rating(team)
            t  == CASE ca >= 140 -> 4
                    [] ca >= 120 /\ ca < 140 -> 3
                    [] ca >= 100 /\ ca < 120 -> 2
                    [] ca >= 80 /\ ca < 100 -> 1
                    [] OTHER -> 0
        IN  /\ Cardinality(PoolIds) = Len(managers)
            /\ ret.value.manager_id \in slice(t)
            /\ ca >= 140 => ret.value.manager_id \notin slice(0)
            /\ ca < 80 => ret.value.manager_id \notin slice(4)

\* A rating of 140 or more got the second manager of a tier-4 slice of two.
C9_Witness ==
    /\ Returned
    /\ Len(managers) >= 10
    /\ "manager_id" \notin DOMAIN team
    /\ rating(team) >= 140
    /\ ret.value.manager_id = managers[4 * (Len(managers) \div 5) + 2].id

\* ---- C8
\* C8: a second run of the enhancement over the same team list and manager
\* pool, the empty pool included, ends as the first did and writes the same
\* list; a run leaves the module's tables as it found them, so nothing it
\* leaves behind changes a later run.
C8_Deterministic ==
    /\ (run >= 2 /\ pc \in {"done", "raised"}) =>
          /\ prev.pc = pc
          /\ prev.output = output
    /\ pc \in {"done", "raised"} =>
          /\ TACTICAL_PRESETS = TacticalPresets
          /\ STYLE_FORMATIONS = StyleFormations

\* A second run over two or more teams, one of them without tactics, with
\* an empty pool has saved its list.
C8_Witness ==
    /\ run = 2
    /\ pc = "done"
    /\ managers = <<>>
    /\ Len(teams) >= 2
    /\ \E k \in 1..Len(teams) : "tactics" \notin DOMAIN teams[k]
    /\ prev.output.written
    /\ Len(output.data) = Len(teams)

\* A second run with a pool of three stopped on the exception the first run
\* stopped on.
C8_WitnessRaised ==
    /\ run = 2
    /\ pc = "raised"
    /\ prev.pc = "raised"
    /\ Len(managers) = 3

\* ---- C10
\* C10: the saved list has the length of the team list, and its k-th record
\* is enhance_team of the k-th team with the 0-based position k as index,
\* whatever fields the record carries; while the loop runs, the list built so
\* far holds one record per team passed.
C10_PositionalIndex ==
    /\ pc = "loop" => Len(enhanced) = i
    /\ pc = "done" =>
          /\ output.written
          /\ Len(output.data) = Len(teams)
          /\ \A k \in 1..Len(teams) :
                LET r == enhance_team(teams[k], managers, k - 1)
                IN  r.status = "ok" /\ output.data[k] = r.value

\* Two equal team records, whose id field is no list position, at different
\* positions of a saved list got different results.
C10_Witness ==
    /\ pc = "done"
    /\ Len(teams) >= 2
    /\ teams[1] = teams[2]
    /\ teams[1].id \notin 0..Len(teams)
    /\ output.data[1] # output.data[2]

\* ============================================== workers, in any order
\* The loop of main as one run of the program, and then the same team list
\* and pool handed to workers: every position is passed to enhance_team with
\* its 0-based position as index, the positions are taken in any order, and
\* the results are collected by position.
Pending == [status |-> "pending", value |-> 0]

InitWorkers ==
    /\ TACTICAL_PRESETS = TacticalPresets
    /\ STYLE_FORMATIONS = StyleFormations
    /\ managers \in MainPools
    /\ teams \in ListsUpTo(MainTeamRecords, MaxTeams)
    /\ team = Base
    /\ index = 0
    /\ ret = NotCalled
    /\ pc = "start"
    /\ i = 0
    /\ enhanced = <<>>
    /\ style_counts = EmptyDict
    /\ output = NoFile
    /\ run = 1
    /\ prev = NoRun
    /\ rating_in = 0
    /\ base = EmptyDict
    /\ tally = EmptyDict
    /\ collected = <<>>

\* The sequential run is over; the workers start as a run of the program of
\* their own, the module loaded anew, with no position processed.
WorkersBegin ==
    /\ pc \in {"done", "raised"}
    /\ prev' = [pc |-> pc, output |-> output]
    /\ TACTICAL_PRESETS' = TacticalPresets
    /\ collected' = [k \in 1..Len(teams) |-> Pending]
    /\ pc' = "workers"
    /\ UNCHANGED <<STYLE_FORMATIONS, managers, team, index, ret, teams, i,
                   enhanced, style_counts, output, run, rating_in, base, tally>>

\* A worker takes the unprocessed position k and calls enhance_team on its
\* record with idx as index.
WorkerStep(k, idx) ==
    /\ pc = "workers"
    /\ collected[k].status = "pending"
    /\ LET r == enhance_team(teams[k], managers, idx)
       IN  /\ TACTICAL_PRESETS' = r.presets
           /\ teams' = [teams EXCEPT ![k] = r.team]
           /\ collected' =
                 [collected EXCEPT ![k] = [status |-> r.status, value |-> r.value]]
    /\ UNCHANGED <<STYLE_FORMATIONS, managers, team, index, ret, pc, i,
                   enhanced, style_counts, output, run, prev, rating_in, base,
                   tally>>

\* The index is the number of positions already processed.
WorkerEnhance_by_arrival(k) ==
    WorkerStep(k, Cardinality({j \in 1..Len(teams) : collected[j].status # "pending"}))

\* enhance_team(teams[k], managers, k) for the 0-based position.
WorkerEnhance(k) == WorkerStep(k, k - 1)

\* Every position is processed: the results are put together by position and
\* saved, unless a worker raised.
WorkersCollect ==
    /\ pc = "workers"
    /\ \A k \in 1..Len(teams) : collected[k].status # "pending"
    /\ IF \A k \in 1..Len(teams) : collected[k].status = "ok"
       THEN /\ output' = [written |-> TRUE,
                          data |-> [k \in 1..Len(teams) |-> collected[k].value]]
            /\ pc' = "collected"
       ELSE /\ pc' = "workers raised"
            /\ UNCHANGED output
    /\ UNCHANGED <<TACTICAL_PRESETS, STYLE_FORMATIONS, managers, team, index,
                   ret, teams, i, enhanced, style_counts, run, prev, rating_in,
                   base, tally, collected>>

NextWorkers ==
    \/ MainBegin
    \/ MainEnhance
    \/ MainSave
    \/ WorkersBegin
    \/ \E k \in 1..Len(teams) : WorkerEnhance(k)
    \/ WorkersCollect

SpecWorkers == InitWorkers /\ [][NextWorkers]_vars

\* ---- C11
\* C11: whatever order the workers take the positions in, the result
\* collected at position k is what enhance_team returns for the k-th record,
\* the index k and the pool, the tables being as the module defines them, so
\* it depends on nothing else; the list put together from the results is
\* the list the sequential loop saved, and a worker raises only if the
\* sequential loop raised.
C11_OrderIndependent ==
    /\ pc = "workers" =>
          /\ TACTICAL_PRESETS = TacticalPresets
          /\ \A k \in 1..Len(teams) :
                collected[k].status # "pending" =>
                    LET r == enhance_team(teams[k], managers, k - 1)
                    IN  /\ collected[k].status = r.status
                        /\ r.status = "ok" => collected[k].value = r.value
    /\ pc = "collected" => prev.pc = "done" /\ output = prev.output
    /\ pc = "workers raised" => prev.pc = "raised"

\* The last position of three was processed first, the others are not yet
\* processed, and its record has no tactics of its own.
C11_Witness ==
    /\ pc = "workers"
    /\ Len(teams) = 3
    /\ collected[3].status = "ok"
    /\ collected[1].status = "pending"
    /\ collected[2].status = "pending"
    /\ "tactics" \notin DOMAIN teams[3]
    /\ "tactics" \in DOMAIN collected[3].value

\* Three positions were collected into the list the sequential loop saved.
C11_WitnessCollected ==
    /\ pc = "collected"
    /\ Len(teams) = 3
    /\ teams[1] # teams[2]
    /\ Len(output.data) = 3

\* ---- C12
\* What a step of main may do to the inputs of enhance_team and to the
\* module's tables: nothing; and a record a call returned is an object of
\* its own.
C12_Step ==
    /\ teams' = teams
    /\ managers' = managers
    /\ TACTICAL_PRESETS' = TACTICAL_PRESETS
    /\ STYLE_FORMATIONS' = STYLE_FORMATIONS
    /\ ret'.status = "ok" => ret'.fresh

\* C12: through any sequence of enhance_team calls the team records, the
\* manager pool, TACTICAL_PRESETS and STYLE_FORMATIONS keep the values they
\* had before the calls, and every returned record is a new dict, not the
\* input dict.
C12_InputsUntouched == [][C12_Step]_vars

\* A call returned a new record with fields the input record, still as it
\* was loaded, does not have.
C12_Witness ==
    /\ pc \in {"loop", "done"}
    /\ i >= 1
    /\ ret.status = "ok"
    /\ ret.fresh
    /\ ret.team = teams[i]
    /\ DOMAIN teams[i] = {"id", "avg_ca"}
    /\ {"manager_id", "formation", "tactics", "tactical_style"} \subseteq DOMAIN ret.value
    /\ TACTICAL_PRESETS = TacticalPresets

\* ---- C13
\* C13 as claimed: a call on a record whose avg_ca is not a number, a
\* numeric string included, ends in an 'invalid team record' error and
\* returns no record.
C13_RejectsNonNumber ==
    (Called /\ ~WellTyped(team)) => ret.status = "invalid team record"

\* What the code does with such a record: a numeric string is converted and
\* the record is enhanced as one of that rating; any other string stops the
\* call with float's ValueError, before a manager or a style is selected.
C13_CoercesOrValueError ==
    (Called /\ ~WellTyped(team)) =>
        IF team.avg_ca[1] = "numeric string"
        THEN ret.status \in {"ok", "ZeroDivisionError", "IndexError"}
        ELSE ret.status = "ValueError"

\* A record with the rating "120" as a string came back enhanced with a
\* manager of the tier of 120.
C13_Witness ==
    /\ Returned
    /\ Get(team, "avg_ca", Num(50)) = NumStr(120)
    /\ "manager_id" \notin DOMAIN team
    /\ Len(managers) = 10
    /\ ret.value.manager_id \in {7, 8}

\* ======================================= a call of select_manager_for_ca
MaxSelectPool == 20

\* Ratings in every band, the thresholds and their neighbours included.
SelectRatings == {60, 79, 80, 99, 100, 119, 120, 139, 140, 150}

InitSelect ==
    /\ TACTICAL_PRESETS = TacticalPresets
    /\ STYLE_FORMATIONS = StyleFormations
    /\ managers \in {Pool(n) : n \in 0..MaxSelectPool}
    /\ rating_in \in SelectRatings
    /\ index \in 0..MaxIndex
    /\ ret = NotCalled
    /\ team = Base
    /\ teams = <<>>
    /\ pc = "select"
    /\ i = 0
    /\ enhanced = <<>>
    /\ style_counts = EmptyDict
    /\ output = NoFile
    /\ run = 0
    /\ prev = NoRun
    /\ base = EmptyDict
    /\ tally = EmptyDict
    /\ collected = <<>>

\* select_manager_for_ca(avg_ca, managers, index)
CallSelectManager ==
    /\ pc = "select"
    /\ ret.status = "not called"
    /\ ret' = select_manager_for_ca(rating_in, managers, index)
    /\ UNCHANGED <<TACTICAL_PRESETS, STYLE_FORMATIONS, managers, team, index,
                   teams, pc, i, enhanced, style_counts, output, run, prev,
                   rating_in, base, tally, collected>>

NextSelect == CallSelectManager

SpecSelect == InitSelect /\ [][NextSelect]_vars

\* The tier of the rating of the call, and the tier slice length of the
\* pool, as the statements about the selection give them.
TierOfRating(r) ==
    CASE r >= 140 -> 4
      [] r >= 120 /\ r < 140 -> 3
      [] r >= 100 /\ r < 120 -> 2
      [] r >= 80 /\ r < 100 -> 1
      [] r < 80 -> 0
SliceLength == Len(managers) \div 5

C14_WitnessWrapped ==
    /\ Returned
    /\ Len(managers) = 13
    /\ rating_in = 100
    /\ index = 7
    /\ ret.value = 6

\* ---- C17
\* The 0-based positions of the pool, the slice of tier t as the statement
\* gives it, the position of the manager a call returned, and whether some
\* rating and index make the selection return the manager at position p.
Positions == 0..(Len(managers) - 1)
TierSize  == Max(1, Len(managers) \div 5)
Slice(t)  ==
    {p \in Positions : /\ p >= t * TierSize
                       /\ p < Min((t + 1) * TierSize, Len(managers))}
SlicesOf(p) == {t \in 0..4 : p \in Slice(t)}
ReturnedPosition == CHOOSE p \in Positions : managers[p + 1].id = ret.value
Assignable(p) ==
    \E r \in {60, 80, 100, 120, 140} : \E j \in 0..(TierSize - 1) :
        select_manager_for_ca(r, managers, j) = Return(managers[p + 1].id)

\* C17 as claimed: for every pool of five or more the five slices partition
\* the pool, every position lying in exactly one slice, and every manager is
\* returned for some rating and index.
C17_SlicesPartition ==
    (Called /\ Len(managers) >= 5) =>
        \A p \in Positions : Cardinality(SlicesOf(p)) = 1 /\ Assignable(p)

\* C17 amended: for a pool of five or more the five slices are disjoint and
\* cover the positions below 5 * (len div 5): each of these lies in exactly
\* one slice and its manager is returned for some rating and index; the last
\* len mod 5 positions lie in no slice; and a call returns a manager of the
\* slice of the rating's tier, so never one of those last positions.
C17_SlicesCoverWholeTiers ==
    Len(managers) >= 5 =>
        /\ \A p \in Positions :
              IF p < 5 * SliceLength
              THEN Cardinality(SlicesOf(p)) = 1 /\ Assignable(p)
              ELSE SlicesOf(p) = {}
        /\ Called =>
              /\ Returned
              /\ ReturnedPosition \in Slice(TierOfRating(rating_in))
              /\ ReturnedPosition < 5 * SliceLength

\* With a pool of eleven the elite tier's call with an odd index returned
\* the manager at position 9, the last of its slice; position 10 is in no
\* slice.
C17_Witness ==
    /\ Len(managers) = 11
    /\ rating_in = 150
    /\ index = 1
    /\ Returned
    /\ ReturnedPosition = 9
    /\ SlicesOf(10) = {}

\* ===================================== a call of determine_tactical_style
MaxStyleIndex == 6000

InitStyle ==
    /\ TACTICAL_PRESETS = TacticalPresets
    /\ STYLE_FORMATIONS = StyleFormations
    /\ managers = <<>>
    /\ rating_in \in SelectRatings
    /\ index \in 0..MaxStyleIndex
    /\ ret = NotCalled
    /\ team = Base
    /\ teams = <<>>
    /\ pc = "style"
    /\ i = 0
    /\ enhanced = <<>>
    /\ style_counts = EmptyDict
    /\ output = NoFile
    /\ run = 0
    /\ prev = NoRun
    /\ base = EmptyDict
    /\ tally = EmptyDict
    /\ collected = <<>>

\* determine_tactical_style(avg_ca, index); exit is the position of the loop
\* at which the call returned, 0 for the return after the loop.
CallDetermineStyle ==
    /\ pc = "style"
    /\ ret.status = "not called"
    /\ ret' = Return(determine_tactical_style(rating_in, index))
                @@ [exit |-> loop_exit(rand_of(index), weights(rating_in), 1)]
    /\ UNCHANGED <<TACTICAL_PRESETS, STYLE_FORMATIONS, managers, team, index,
                   teams, pc, i, enhanced, style_counts, output, run, prev,
                   rating_in, base, tally, collected>>

NextStyle == CallDetermineStyle

SpecStyle == InitStyle /\ [][NextStyle]_vars

\* ---- C15
\* frac in ten-thousandths, and the first style, in the order Attacking,
\* Defensive, Balanced, Possession, Counter, Pressing, whose cumulative
\* weight (the decimal sum of the table's entries) is at least frac.
Frac == (index * 7919) % 10000
FirstReaching(frac, w) ==
    LET reaching == {n \in 1..Len(w) : SumTo(w, n) >= frac}
    IN  styles[CHOOSE n \in reaching : \A m \in reaching : n <= m]

\* C15 as claimed: determine_tactical_style returns the first style whose
\* cumulative weight in the band's table is >= frac; index 0 gives
\* Attacking in every band, and the rating 60 with index 5 gives Pressing.
C15_FirstStyleReachingFrac ==
    Called =>
        /\ ret.value = FirstReaching(Frac, weights(rating_in))
        /\ index = 0 => ret.value = "Attacking"
        /\ (rating_in = 60 /\ index = 5) => ret.value = "Pressing"

\* What the code returns: the first style whose cumulative weight is >= frac,
\* except where frac equals a cumulative weight whose floating-point sum
\* falls short of it; there the next style is returned.
C15_ExactExceptRoundedSums ==
    Called =>
        LET w == weights(rating_in)
            short == \E n \in 1..Len(w) : SumIsBelowDecimal(w, n) /\ SumTo(w, n) = Frac
        IN  /\ ~short => ret.value = FirstReaching(Frac, w)
            /\ short => ret.value = FirstReaching(Frac + 1, w)
            /\ index = 0 => ret.value = "Attacking"
            /\ (rating_in = 60 /\ index = 5) => ret.value = "Pressing"

\* The call for a rating of 100 and index 1000, frac 0.9000, returned
\* Pressing though the cumulative weight of Counter is 0.90.
C15_Witness ==
    /\ Called
    /\ rating_in = 100
    /\ index = 1000
    /\ Frac = 9000
    /\ SumTo(weights(rating_in), 5) = 9000
    /\ ret.value = "Pressing"

\* ---- C16
\* The teams main has passed so far that were given a manager by the
\* selector, the tier of the team at list position k, and the number of
\* teams of that tier between the list positions a and b.
Assigned == {k \in 1..Len(enhanced) : "manager_id" \notin DOMAIN teams[k]}
TierAt(k) == TierOfRating(rating(teams[k]))
SameTierBetween(a, b) ==
    Cardinality({k \in (a + 1)..(b - 1) : TierAt(k) = TierAt(a)})

\* C16 as claimed: with a pool of five or more and a slice length L > 1, any
\* two teams among L consecutive teams of one tier, teams of other tiers
\* between them or not, are assigned different managers.
C16_CyclesWithinTier ==
    (pc \in {"loop", "done"} /\ Len(managers) >= 5 /\ SliceLength > 1) =>
        \A a \in Assigned : \A b \in Assigned :
            (a < b /\ TierAt(a) = TierAt(b) /\ SameTierBetween(a, b) <= SliceLength - 2)
                => enhanced[a].manager_id # enhanced[b].manager_id

\* C16 amended: the manager depends on the list position modulo L; two
\* teams of one tier less than L list positions apart are assigned different
\* managers, and two a multiple of L apart the same one.
C16_CyclesWithPosition ==
    (pc \in {"loop", "done"} /\ Len(managers) >= 5 /\ SliceLength > 1) =>
        \A a \in Assigned : \A b \in Assigned :
            (a < b /\ TierAt(a) = TierAt(b)) =>
                /\ b - a < SliceLength =>
                      enhanced[a].manager_id # enhanced[b].manager_id
                /\ (b - a) % SliceLength = 0 =>
                      enhanced[a].manager_id = enhanced[b].manager_id

\* With a pool of ten, two elite teams next to each other got the managers
\* 9 and 10, and a third elite team after them got 9 again.
C16_Witness ==
    /\ pc = "done"
    /\ Len(managers) = 10
    /\ Assigned = {1, 2, 3}
    /\ \A k \in 1..3 : TierAt(k) = 4
    /\ enhanced[1].manager_id = 9
    /\ enhanced[2].manager_id = 10
    /\ enhanced[3].manager_id = 9

\* ---- C18
\* C18: STYLE_FORMATIONS lists exactly three candidates for each of the six
\* styles; a record that arrived without a formation is returned with the
\* candidate at position index mod 3 of the list of the style it was
\* tagged with, that style being a key of the table, so that the default
\* list of the lookup is not what the formation was taken from.
C18_FormationByIndex ==
    /\ DOMAIN STYLE_FORMATIONS = Codes(styles)
    /\ \A s \in DOMAIN STYLE_FORMATIONS : Len(STYLE_FORMATIONS[s]) = 3
    /\ (Returned /\ "formation" \notin DOMAIN team) =>
          /\ ret.value.tactical_style \in DOMAIN STYLE_FORMATIONS
          /\ ret.value.formation =
                STYLE_FORMATIONS[ret.value.tactical_style][(index % 3) + 1]

\* A record without formation at index 4 was tagged Defensive and got the
\* second candidate of that style, a code that is not the default.
C18_Witness ==
    /\ Returned
    /\ "formation" \notin DOMAIN team
    /\ index = 4
    /\ ret.value.tactical_style = "Defensive"
    /\ ret.value.formation = "T532"

\* ================================================ a call of add_variation
\* Base vectors: the six presets, and vectors with entries at and next to
\* both ends of [0, 1].
VaryBases ==
    {TacticalPresets[s] : s \in DOMAIN TacticalPresets}
        \cup {Vec(0, 5, 9, 10, 50, 100), Vec(90, 91, 95, 99, 1, 11)}

InitVary ==
    /\ TACTICAL_PRESETS = TacticalPresets
    /\ STYLE_FORMATIONS = StyleFormations
    /\ managers = <<>>
    /\ rating_in = 0
    /\ index \in 0..MaxIndex
    /\ ret = NotCalled
    /\ team = Base
    /\ teams = <<>>
    /\ pc = "vary"
    /\ i = 0
    /\ enhanced = <<>>
    /\ style_counts = EmptyDict
    /\ output = NoFile
    /\ run = 0
    /\ prev = NoRun
    /\ base \in VaryBases
    /\ tally = EmptyDict
    /\ collected = <<>>

\* add_variation(base, index)
CallAddVariation ==
    /\ pc = "vary"
    /\ ret.status = "not called"
    /\ LET av == add_variation(base, index)
       IN  /\ ret' = Return(av.varied)
           /\ base' = av.base_tactics
    /\ UNCHANGED <<TACTICAL_PRESETS, STYLE_FORMATIONS, managers, team, index,
                   teams, pc, i, enhanced, style_counts, output, run, prev,
                   rating_in, tally, collected>>

NextVary == CallAddVariation

SpecVary == InitVary /\ [][NextVary]_vars

\* ---- C19
\* delta of an index, in hundredths, and the clamp to [0, 1].
Delta(j)   == ((j * 31) % 20) - 10
Clamp(v)   == Max(0, Min(100, v))

\* C19: add_variation returns a vector with the six parameter names of its
\* base, each parameter being clamp(base + delta, 0, 1) for the one delta
\* ((index*31) mod 20 - 10)/100 of the call; delta is a whole number of
\* hundredths from -0.10 to +0.09, and over the 20 indices from any index on
\* it takes every one of these 20 values.
C19_VariedByDelta ==
    /\ Delta(index) \in (0 - 10)..9
    /\ {Delta(j) : j \in index..(index + 19)} = (0 - 10)..9
    /\ Called =>
          /\ DOMAIN ret.value = Params
          /\ DOMAIN ret.value = DOMAIN base
          /\ \A key \in Params : ret.value[key] = Clamp(base[key] + Delta(index))

\* A call with delta +0.09 clamped two parameters at 1.0 and raised the
\* others by 0.09; the base vector is as it was.
C19_Witness ==
    /\ Called
    /\ base = Vec(90, 91, 95, 99, 1, 11)
    /\ Delta(index) = 9
    /\ ret.value = Vec(99, 100, 100, 100, 10, 20)

\* A call with delta -0.10 clamped two parameters at 0.0.
C19_WitnessLow ==
    /\ Called
    /\ base = Vec(0, 5, 9, 10, 50, 100)
    /\ Delta(index) = 0 - 10
    /\ ret.value = Vec(0, 0, 0, 0, 40, 90)

\* ============================ determine_tactical_style over many indices
\* The styles returned for 10000 consecutive indices from a start index on
\* are counted, a block of indices at a time.
MaxSampleStart == 3
SampleBlock    == 100

InitSample ==
    /\ TACTICAL_PRESETS = TacticalPresets
    /\ STYLE_FORMATIONS = StyleFormations
    /\ managers = <<>>
    /\ rating_in \in SelectRatings
    /\ index \in 0..MaxSampleStart
    /\ ret = NotCalled
    /\ team = Base
    /\ teams = <<>>
    /\ pc = "sample"
    /\ i = 0
    /\ enhanced = <<>>
    /\ style_counts = EmptyDict
    /\ output = NoFile
    /\ run = 0
    /\ prev = NoRun
    /\ base = EmptyDict
    /\ tally = [s \in Codes(styles) |-> 0]
    /\ collected = <<>>

\* determine_tactical_style(avg_ca, j) for the next block of indices j, each
\* returned style counted.
SampleStyles ==
    /\ pc = "sample"
    /\ i < 10000
    /\ LET n == Min(SampleBlock, 10000 - i)
           block == (index + i)..(index + i + n - 1)
       IN  /\ tally' =
                 [s \in Codes(styles) |->
                     tally[s] + Cardinality(
                         {j \in block : determine_tactical_style(rating_in, j) = s})]
           /\ i' = i + n
    /\ UNCHANGED <<TACTICAL_PRESETS, STYLE_FORMATIONS, managers, team, index,
                   ret, teams, pc, enhanced, style_counts, output, run, prev,
                   rating_in, base, collected>>

NextSample == SampleStyles

SpecSample == InitSample /\ [][NextSample]_vars

\* ---- C20
Distance(a, b) == IF a >= b THEN a - b ELSE b - a

\* C20: the six weights of the band of every rating sum to 1.0, and over
\* 10000 consecutive indices from any start the number of indices for which
\* determine_tactical_style returns a style is within 1 of the style's
\* weight times 10000.
C20_DistributionShape ==
    /\ SumTo(weights(rating_in), Len(styles)) = 10000
    /\ i = 10000 =>
          \A n \in 1..Len(styles) :
              Distance(tally[styles[n]], weights(rating_in)[n]) <= 1

\* 10000 indices from the start index 3 on were counted for a rating of
\* 100: Attacking 1501 times and Balanced 3499 times, for weights of 0.15
\* and 0.35.
C20_Witness ==
    /\ i = 10000
    /\ index = 3
    /\ rating_in = 100
    /\ tally["Attacking"] = 1501
    /\ tally["Balanced"] = 3499
    /\ tally["Pressing"] = 1000

\* ======================================= rand_value over many indices
\* The fractions of 10000 consecutive indices from a start index on are
\* gathered, a block of indices at a time: the set of the fractions seen, and
\* the number of indices whose fraction an earlier index had given.
InitFrac ==
    /\ TACTICAL_PRESETS = TacticalPresets
    /\ STYLE_FORMATIONS = StyleFormations
    /\ managers = <<>>
    /\ rating_in = 0
    /\ index \in 0..MaxSampleStart
    /\ ret = NotCalled
    /\ team = Base
    /\ teams = <<>>
    /\ pc = "fractions"
    /\ i = 0
    /\ enhanced = <<>>
    /\ style_counts = EmptyDict
    /\ output = NoFile
    /\ run = 0
    /\ prev = NoRun
    /\ base = EmptyDict
    /\ tally = [seen |-> {}, repeats |-> 0]
    /\ collected = <<>>

\* rand_value of the next block of indices.
GatherFractions ==
    /\ pc = "fractions"
    /\ i < 10000
    /\ LET n == Min(SampleBlock, 10000 - i)
           block == (index + i)..(index + i + n - 1)
           fractions == {rand_of(j) : j \in block}
       IN  /\ tally' =
                 [seen |-> tally.seen \cup fractions,
                  repeats |-> tally.repeats + (n - Cardinality(fractions \ tally.seen))]
           /\ i' = i + n
    /\ UNCHANGED <<TACTICAL_PRESETS, STYLE_FORMATIONS, managers, team, index,
                   ret, teams, pc, enhanced, style_counts, output, run, prev,
                   rating_in, base, collected>>

NextFrac == GatherFractions

SpecFrac == InitFrac /\ [][NextFrac]_vars

\* ---- C21
\* C21: among 10000 consecutive indices no two give the same fraction, the
\* fractions being whole ten-thousandths from 0 to 9999, so that after 10000
\* indices every one of them has occurred exactly once; an index 10000
\* further on gives the fraction again.
C21_NoShortPeriod ==
    /\ tally.repeats = 0
    /\ Cardinality(tally.seen) = i
    /\ tally.seen \subseteq 0..9999
    /\ i = 10000 => tally.seen = 0..9999
    /\ (index * 7919) % 10000 = ((index + 10000) * 7919) % 10000

\* From the start index 2 on, 10000 indices gave the 10000 fractions.
C21_Witness ==
    /\ index = 2
    /\ i = 10000
    /\ tally.repeats = 0
    /\ Cardinality(tally.seen) = 10000

\* ---- C22
\* C22: for every rating and index determine_tactical_style returns inside
\* its loop, at one of the six positions, the fraction being at most 0.9999
\* and so within the cumulative weight of the sixth style; the "Balanced"
\* after the loop is never what is returned.
C22_FallbackUnreachable ==
    Called =>
        /\ ret.exit \in 1..Len(styles)
        /\ ret.value = styles[ret.exit]
        /\ Frac <= 9999
        /\ Frac <= SumTo(weights(rating_in), Len(styles))

\* The call with the largest fraction, 0.9999 at index 2321, in the band
\* whose floating-point sum of the six weights is below 1.0, returned at the
\* sixth position.
C22_Witness ==
    /\ Called
    /\ rating_in = 100
    /\ index = 2321
    /\ Frac = 9999
    /\ ret.exit = 6
    /\ ret.value = "Pressing"

\* ================================== add_variation on the built-in presets
\* base_value + variation is a sum of IEEE-754 doubles.  For the values of
\* TACTICAL_PRESETS and the twenty variations the double of the sum is the
\* double nearest to the decimal sum, or its neighbour one unit in the last
\* place below or above (0.3 + -0.1 is 0.19999999999999998, 0.8 + -0.1 is
\* 0.7000000000000001).  Pairs of a base value and the variations, both in
\* hundredths, whose sum falls below:
SumBelow ==
    {
     <<30, {-10, -8, -7, -2, 3, 4}>>,
     <<35, {-10, -8, -7, -3, -2, -1, 4, 5, 9}>>,
     <<60, {-5, -4, 6, 7, 8}>>,
     <<70, {-7, -6, -5, -4, -3, -2, 8, 9}>>,
     <<75, {-7}>>,
     <<85, {-5, -4, 6, 7, 8}>>
    }
\* and above:
SumAbove ==
    {
     <<40, {-10, -9, -5, -4, 1, 2, 3, 7, 8}>>,
     <<50, {-9, 7}>>,
     <<65, {-8, -7, -6, 4, 5}>>,
     <<75, {7}>>,
     <<80, {-10, -9, -8, 2, 3, 4, 5, 6, 7}>>,
     <<90, {-8, -7, -6, 4, 5}>>
    }

\* The units in the last place by which the double base_value + variation
\* differs from the double of the decimal sum.
float_sum_ulps(base_value, v) ==
    IF \E e \in SumBelow : e[1] = base_value /\ v \in e[2] THEN 0 - 1
    ELSE IF \E e \in SumAbove : e[1] = base_value /\ v \in e[2] THEN 1
    ELSE 0

\* add_variation with each value as a pair: the hundredths of add_variation,
\* and the units in the last place the double differs from them by; a
\* clamped value is the double 0.0 or 1.0 itself.
add_variation_doubles(base_tactics, idx) ==
    LET varied == add_variation(base_tactics, idx).varied
    IN  [key \in DOMAIN base_tactics |->
            LET sum == base_tactics[key] + variation(idx)
                ulps == float_sum_ulps(base_tactics[key], variation(idx))
            IN  IF sum < 0 \/ sum > 100 THEN <<varied[key], 0>>
                ELSE IF sum = 0 THEN <<varied[key], Max(0, ulps)>>
                ELSE IF sum = 100 THEN <<varied[key], Min(0, ulps)>>
                ELSE <<varied[key], ulps>>]

InitPreset ==
    /\ TACTICAL_PRESETS = TacticalPresets
    /\ STYLE_FORMATIONS = StyleFormations
    /\ managers = <<>>
    /\ rating_in = 0
    /\ index \in 0..MaxIndex
    /\ ret = NotCalled
    /\ team = Base
    /\ teams = <<>>
    /\ pc = "preset"
    /\ i = 0
    /\ enhanced = <<>>
    /\ style_counts = EmptyDict
    /\ output = NoFile
    /\ run = 0
    /\ prev = NoRun
    /\ base \in {TacticalPresets[s] : s \in DOMAIN TacticalPresets}
    /\ tally = EmptyDict
    /\ collected = <<>>

\* add_variation(TACTICAL_PRESETS[style], index)
CallAddVariationPreset ==
    /\ pc = "preset"
    /\ ret.status = "not called"
    /\ ret' = Return(add_variation_doubles(base, index))
    /\ base' = add_variation(base, index).base_tactics
    /\ UNCHANGED <<TACTICAL_PRESETS, STYLE_FORMATIONS, managers, team, index,
                   teams, pc, i, enhanced, style_counts, output, run, prev,
                   rating_in, tally, collected>>

NextPreset == CallAddVariationPreset

SpecPreset == InitPreset /\ [][NextPreset]_vars

\* ---- C23
\* A value <<hundredths, ulps>> compared with a whole number of hundredths.
AtLeast(v, h) == v[1] > h \/ (v[1] = h /\ v[2] >= 0)
AtMost(v, h)  == v[1] < h \/ (v[1] = h /\ v[2] <= 0)

\* The clamp took no effect and the differences between the parameters, in
\* hundredths, are those of the base vector.
Unclamped ==
    /\ \A key \in Params : ret.value[key][1] = base[key] + Delta(index)
    /\ \A k1 \in Params : \A k2 \in Params :
          ret.value[k1][1] - ret.value[k2][1] = base[k1] - base[k2]

\* C23 as claimed: for a built-in preset and any index add_variation clamps
\* nothing, every output is base + delta and lies between 0.20 and 0.99, and
\* the differences between parameters are those of the base vector.
C23_BetweenBounds ==
    Called =>
        /\ Unclamped
        /\ \A key \in Params :
              AtLeast(ret.value[key], 20) /\ AtMost(ret.value[key], 99)

\* C23 amended: add_variation clamps nothing; every output is the
\* floating-point sum base + delta, at most one unit in the last place from
\* the double of the decimal sum, which lies between 0.20 and 0.99; the
\* output itself can fall below 0.20 by that unit, and never exceeds 0.99;
\* the differences between parameters are those of the base vector to within
\* that rounding.
C23_BetweenBoundsRounded ==
    Called =>
        /\ Unclamped
        /\ \A key \in Params :
              /\ ret.value[key][1] \in 20..99
              /\ ret.value[key][2] \in {0 - 1, 0, 1}
              /\ AtMost(ret.value[key], 99)
              /\ AtLeast(ret.value[key], 21) \/ ret.value[key] \in {<<20, 0 - 1>>, <<20, 0>>}

\* The Defensive preset at an index with delta -0.10: attacking_intensity
\* 0.3 came out as 0.19999999999999998.
C23_Witness ==
    /\ Called
    /\ base = TacticalPresets["Defensive"]
    /\ Delta(index) = 0 - 10
    /\ ret.value["attacking_intensity"] = <<20, 0 - 1>>
    /\ ret.value["tempo"][1] = 30

\* The Pressing preset at an index with delta +0.09: pressing_trigger 0.9
\* came out as 0.99.
C23_WitnessHigh ==
    /\ Called
    /\ base = TacticalPresets["Pressing"]
    /\ Delta(index) = 9
    /\ ret.value["pressing_trigger"] = <<99, 0>>

\* ======================================== enhance_team on its own result
\* A call of enhance_team, and then a call on the record it returned, with
\* any pool and any index.
MaxAgainIndex == 3

InitAgain ==
    /\ TACTICAL_PRESETS = TacticalPresets
    /\ STYLE_FORMATIONS = StyleFormations
    /\ managers \in MainPools
    /\ team \in TeamRecords
    /\ index \in 0..MaxAgainIndex
    /\ ret = NotCalled
    /\ teams = <<>>
    /\ pc = "first"
    /\ i = 0
    /\ enhanced = <<>>
    /\ style_counts = EmptyDict
    /\ output = NoFile
    /\ run = 0
    /\ prev = NotCalled
    /\ rating_in = 0
    /\ base = EmptyDict
    /\ tally = EmptyDict
    /\ collected = <<>>

\* enhance_team(team, managers, index)
CallFirst ==
    /\ pc = "first"
    /\ ret' = enhance_team(team, managers, index)
    /\ TACTICAL_PRESETS' = ret'.presets
    /\ team' = ret'.team
    /\ pc' = IF ret'.status = "ok" THEN "second" ELSE "raised"
    /\ UNCHANGED <<STYLE_FORMATIONS, managers, index, teams, i, enhanced,
                   style_counts, output, run, prev, rating_in, base, tally,
                   collected>>

\* enhance_team(enhanced_team, p2, j) on the record the first call returned;
\* prev keeps the first outcome.
CallSecond ==
    /\ pc = "second"
    /\ \E p2 \in MainPools : \E j \in 0..MaxAgainIndex :
          LET r == enhance_team(ret.value, p2, j)
          IN  /\ prev' = ret
              /\ ret' = r
              /\ team' = r.team
              /\ managers' = p2
              /\ index' = j
              /\ TACTICAL_PRESETS' = r.presets
    /\ pc' = "second done"
    /\ UNCHANGED <<STYLE_FORMATIONS, teams, i, enhanced, style_counts, output,
                   run, rating_in, base, tally, collected>>

NextAgain == CallFirst \/ CallSecond

SpecAgain == InitAgain /\ [][NextAgain]_vars

\* ---- C24
\* C24: when a call of enhance_team returned a record, a call on that record
\* with any pool and any index returns it again, raising nothing: the same
\* keys and the same values, manager, formation, tactics and tactical_style
\* (or the lack of one) included, and the record handed in is left as it was.
C24_ReapplicationNoOp ==
    pc = "second done" =>
        /\ ret.status = "ok"
        /\ ret.value = prev.value
        /\ team = prev.value
        /\ DOMAIN ret.value = DOMAIN prev.value
        /\ \A key \in {"manager_id", "formation", "tactics"} : key \in DOMAIN ret.value

\* A record enhanced with a pool of ten, manager 9 or 10 and a style tag, was
\* passed again with a pool of three, for which a selection in the elite
\* tier raises, and another index, and came back the same.
C24_Witness ==
    /\ pc = "second done"
    /\ Len(managers) = 3
    /\ index = 3
    /\ rating(team) = 140
    /\ prev.value.manager_id \in {9, 10}
    /\ "tactical_style" \in DOMAIN prev.value
    /\ prev.value.tactical_style # determine_tactical_style(rating(team), index)
    /\ ret.value = prev.value

\* ---- C25
\* The record with the rating 50 written into it, a record without its
\* avg_ca key, and the ids of the first tier slice of the pool.
WithRating50      == Put(team, "avg_ca", Num(50))
WithoutRating(r)  == [key \in DOMAIN r \ {"avg_ca"} |-> r[key]]
FirstSliceIds     == {managers[k].id : k \in 1..Min(Len(managers), Max(1, Len(managers) \div 5))}

\* C25: a call on a record without avg_ca raises nothing, for any pool, and
\* returns what the call on the same record with avg_ca 50 returns, less
\* the avg_ca key, which is not added; when the record is not yet enhanced
\* its style is the one the weights 0.05, 0.35, 0.35, 0.05, 0.15, 0.05 give
\* for the fraction of the index, and a manager it is assigned is one of
\* the first slice of the pool (1 for the empty pool).
C25_DefaultRating ==
    (Called /\ "avg_ca" \notin DOMAIN team) =>
        /\ Returned
        /\ "avg_ca" \notin DOMAIN ret.value
        /\ LET with50 == enhance_team(WithRating50, managers, index)
           IN  with50.status = "ok" /\ ret.value = WithoutRating(with50.value)
        /\ Present(team) # Enhancement =>
              /\ ret.value.tactical_style =
                    styles[CHOOSE n \in 1..6 :
                             /\ within_cumulative(Frac, <<500, 3500, 3500, 500, 1500, 500>>, n)
                             /\ \A m \in 1..(n - 1) :
                                   ~within_cumulative(Frac, <<500, 3500, 3500, 500, 1500, 500>>, m)]
              /\ "manager_id" \notin DOMAIN team =>
                    IF managers = <<>> THEN ret.value.manager_id = 1
                    ELSE ret.value.manager_id \in FirstSliceIds

\* A record without avg_ca and without a manager, at index 14 (fraction
\* 0.0866) with a pool of ten, came back Defensive, the style of the lowest
\* band only, with the first manager and no avg_ca.
C25_Witness ==
    /\ Returned
    /\ "avg_ca" \notin DOMAIN team
    /\ "manager_id" \notin DOMAIN team
    /\ index = 14
    /\ Len(managers) = 10
    /\ ret.value.tactical_style = "Defensive"
    /\ ret.value.manager_id = 1
    /\ "avg_ca" \notin DOMAIN ret.value

\* A record without avg_ca was enhanced with a pool of a single manager.
C25_WitnessSmallPool ==
    /\ Returned
    /\ "avg_ca" \notin DOMAIN team
    /\ "manager_id" \notin DOMAIN team
    /\ Len(managers) = 1
    /\ ret.value.manager_id = 1

====
